---------------------------- MODULE Spec2Model ----------------------------
(***************************************************************************)
(* RecoverySoftNetz file-carving engine (core/file_carving.cpp): the       *)
(* signature registry, the stats tracker and the CarveFiles entry point,   *)
(* as they are implemented, with two threads of control calling into one   *)
(* engine instance.                                                        *)
(***************************************************************************)
EXTENDS Integers, Sequences, FiniteSets, TLC

\* ------------------------------------------------------------- bounds ----
\* Initialize() calls counted by the bookkeeping variable init_calls.
MaxInitCalls == 2

\* The longest buffer handed to MatchesSignature and FindFooter.
MaxWindow == 4

\* The threads of control that may call CarveFiles on the one engine.
Callers == {1, 2}

\* ------------------------------------------------- 64-bit byte counts ----
\* The uint64_t sizes of the catalog (up to 4 GiB, and the 1 TB default scan
\* cap) do not fit TLC's 32-bit integers, so a size is the pair (hi, lo)
\* standing for hi * 2^30 + lo with 0 <= lo < 2^30.
Bytes(n) == [hi |-> 0, lo |-> n]
MiB(n) == [hi |-> 0, lo |-> n * 1024 * 1024]
GiB(n) == [hi |-> n, lo |-> 0]
SizeLE(a, b) == a.hi < b.hi \/ (a.hi = b.hi /\ a.lo <= b.lo)
SizeLT(a, b) == a.hi < b.hi \/ (a.hi = b.hi /\ a.lo < b.lo)

\* ------------------------------------ FileSignatures (default catalog) ----
JPEG ==
  [file_type |-> "JPEG Image", extension |-> ".jpg",
   header |-> <<255, 216, 255>>,
   footer |-> <<255, 217>>,
   max_file_size |-> MiB(10), has_footer |-> TRUE]

PNG ==
  [file_type |-> "PNG Image", extension |-> ".png",
   header |-> <<137, 80, 78, 71, 13, 10, 26, 10>>,
   footer |-> <<73, 69, 78, 68, 174, 66, 96, 130>>,
   max_file_size |-> MiB(50), has_footer |-> TRUE]

PDF ==
  [file_type |-> "PDF Document", extension |-> ".pdf",
   header |-> <<37, 80, 68, 70>>,
   footer |-> <<37, 37, 69, 79, 70>>,
   max_file_size |-> MiB(100), has_footer |-> TRUE]

ZIP ==
  [file_type |-> "ZIP Archive", extension |-> ".zip",
   header |-> <<80, 75, 3, 4>>,
   footer |-> <<80, 75, 5, 6>>,
   max_file_size |-> GiB(1), has_footer |-> TRUE]

MP3 ==
  [file_type |-> "MP3 Audio", extension |-> ".mp3",
   header |-> <<255, 251>>,
   footer |-> << >>,
   max_file_size |-> MiB(50), has_footer |-> FALSE]

\* A catalog entry that kept the name of the ZIP entry it was copied from.
DOCX_CopiedName ==
  [file_type |-> "ZIP Archive", extension |-> ".docx",
   header |-> <<80, 75, 3, 4>>,
   footer |-> << >>,
   max_file_size |-> MiB(100), has_footer |-> FALSE]

DOCX ==
  [file_type |-> "Word Document", extension |-> ".docx",
   header |-> <<80, 75, 3, 4>>,
   footer |-> << >>,
   max_file_size |-> MiB(100), has_footer |-> FALSE]

GIF ==
  [file_type |-> "GIF Image", extension |-> ".gif",
   header |-> <<71, 73, 70, 56>>,
   footer |-> <<0, 59>>,
   max_file_size |-> MiB(10), has_footer |-> TRUE]

BMP ==
  [file_type |-> "BMP Image", extension |-> ".bmp",
   header |-> <<66, 77>>,
   footer |-> << >>,
   max_file_size |-> MiB(50), has_footer |-> FALSE]

MP4 ==
  [file_type |-> "MP4 Video", extension |-> ".mp4",
   header |-> <<0, 0, 0, 24, 102, 116, 121, 112>>,
   footer |-> << >>,
   max_file_size |-> GiB(2), has_footer |-> FALSE]

AVI ==
  [file_type |-> "AVI Video", extension |-> ".avi",
   header |-> <<82, 73, 70, 70>>,
   footer |-> << >>,
   max_file_size |-> GiB(2), has_footer |-> FALSE]

MKV ==
  [file_type |-> "Matroska Video", extension |-> ".mkv",
   header |-> <<26, 69, 223, 163>>,
   footer |-> << >>,
   max_file_size |-> GiB(4), has_footer |-> FALSE]

FLV ==
  [file_type |-> "Flash Video", extension |-> ".flv",
   header |-> <<70, 76, 86, 1>>,
   footer |-> << >>,
   max_file_size |-> GiB(1), has_footer |-> FALSE]

MOV ==
  [file_type |-> "QuickTime Video", extension |-> ".mov",
   header |-> <<0, 0, 0, 20, 102, 116, 121, 112, 113, 116>>,
   footer |-> << >>,
   max_file_size |-> GiB(4), has_footer |-> FALSE]

WMV ==
  [file_type |-> "Windows Media Video", extension |-> ".wmv",
   header |-> <<48, 38, 178, 117, 142, 102, 207, 17>>,
   footer |-> << >>,
   max_file_size |-> GiB(2), has_footer |-> FALSE]

RAR ==
  [file_type |-> "RAR Archive", extension |-> ".rar",
   header |-> <<82, 97, 114, 33, 26, 7>>,
   footer |-> << >>,
   max_file_size |-> GiB(4), has_footer |-> FALSE]

GZIP ==
  [file_type |-> "GZIP Archive", extension |-> ".gz",
   header |-> <<31, 139, 8>>,
   footer |-> << >>,
   max_file_size |-> GiB(1), has_footer |-> FALSE]

SEVENZ ==
  [file_type |-> "7-Zip Archive", extension |-> ".7z",
   header |-> <<55, 122, 188, 175, 39, 28>>,
   footer |-> << >>,
   max_file_size |-> GiB(4), has_footer |-> FALSE]

TAR ==
  [file_type |-> "TAR Archive", extension |-> ".tar",
   header |-> <<117, 115, 116, 97, 114>>,
   footer |-> << >>,
   max_file_size |-> GiB(4), has_footer |-> FALSE]

BZIP2 ==
  [file_type |-> "BZIP2 Archive", extension |-> ".bz2",
   header |-> <<66, 90, 104>>,
   footer |-> << >>,
   max_file_size |-> GiB(1), has_footer |-> FALSE]

FLAC ==
  [file_type |-> "FLAC Audio", extension |-> ".flac",
   header |-> <<102, 76, 97, 67>>,
   footer |-> << >>,
   max_file_size |-> MiB(500), has_footer |-> FALSE]

WAV ==
  [file_type |-> "WAV Audio", extension |-> ".wav",
   header |-> <<82, 73, 70, 70>>,
   footer |-> << >>,
   max_file_size |-> MiB(500), has_footer |-> FALSE]

M4A ==
  [file_type |-> "M4A Audio", extension |-> ".m4a",
   header |-> <<0, 0, 0, 32, 102, 116, 121, 112, 77, 52, 65>>,
   footer |-> << >>,
   max_file_size |-> MiB(200), has_footer |-> FALSE]

OGG ==
  [file_type |-> "OGG Audio", extension |-> ".ogg",
   header |-> <<79, 103, 103, 83>>,
   footer |-> << >>,
   max_file_size |-> MiB(200), has_footer |-> FALSE]

WMA ==
  [file_type |-> "Windows Media Audio", extension |-> ".wma",
   header |-> <<48, 38, 178, 117, 142, 102, 207, 17>>,
   footer |-> << >>,
   max_file_size |-> MiB(200), has_footer |-> FALSE]

\* LoadDefaultSignatures registers the catalog in this order.
DefaultSignatures ==
  <<JPEG, PNG, GIF, BMP,
    PDF, DOCX,
    ZIP, RAR, GZIP, SEVENZ, TAR, BZIP2,
    MP3, FLAC, WAV, M4A, OGG, WMA,
    MP4, AVI, MKV, FLV, MOV, WMV>>

\* ------------------------------------------------------------- inputs ----
\* A second signature under the already catalogued name "JPEG Image".
SmallJpeg ==
  [file_type |-> "JPEG Image", extension |-> ".jpeg",
   header |-> <<255, 216, 255>>,
   footer |-> <<255, 217>>,
   max_file_size |-> Bytes(8), has_footer |-> TRUE]

\* A footerless signature small enough for a source to hold max_size bytes.
TinySig ==
  [file_type |-> "Tiny Type", extension |-> ".tny",
   header |-> <<84>>,
   footer |-> << >>,
   max_file_size |-> Bytes(4), has_footer |-> FALSE]

SignatureInputs == {SmallJpeg, TinySig}

\* A signature that breaks every rule of the FileSignature invariant: empty
\* header, maximum size 0, has_footer set with no footer bytes.
MalformedSig ==
  [file_type |-> "Malformed Type", extension |-> ".bad",
   header |-> << >>,
   footer |-> << >>,
   max_file_size |-> Bytes(0), has_footer |-> TRUE]

\* Arguments of SetMaxScanSize (the unit test passes 100 MiB).
MaxScanSizeInputs == {Bytes(0), Bytes(4), MiB(100)}

\* Contents of the device or image that device_path names.
\* JpegSource: FF D8 FF, two payload bytes, FF D9, inside a longer input.
JpegSource == <<0, 255, 216, 255, 1, 2, 255, 217, 0>>
\* TinySource: the header of TinySig followed by more than max_size bytes.
TinySource == <<84, 0, 0, 0, 0, 0>>
Sources == {JpegSource, TinySource}

\* ----------------------------------------------------------- registry ----
\* std::string operator< on the file_type names in use: byte-wise
\* lexicographic order, tabulated.
SortedKeys ==
  <<"7-Zip Archive", "AVI Video", "BMP Image", "BZIP2 Archive",
    "FLAC Audio", "Flash Video", "GIF Image", "GZIP Archive",
    "JPEG Image", "M4A Audio", "MP3 Audio", "MP4 Video",
    "Malformed Type", "Matroska Video",
    "OGG Audio", "PDF Document", "PNG Image", "QuickTime Video",
    "RAR Archive", "TAR Archive", "Tiny Type", "WAV Audio",
    "Windows Media Audio", "Windows Media Video", "Word Document",
    "ZIP Archive">>

KeyRankTable ==
  [k \in {SortedKeys[i] : i \in 1..Len(SortedKeys)} |->
     CHOOSE i \in 1..Len(SortedKeys) : SortedKeys[i] = k]

KeyRank(k) == KeyRankTable[k]

KeyLess(a, b) == KeyRank(a) < KeyRank(b)

\* signatures_ is the sequence of the map's (key, value) nodes in iteration
\* order.  MapFind: the index of the node with key k, 0 when there is none.
MapFind(m, k) ==
  IF \E i \in 1..Len(m) : m[i].first = k
  THEN CHOOSE i \in 1..Len(m) : m[i].first = k
  ELSE 0

\* The node a new key is inserted in front of (keys are kept in order).
MapLowerBound(m, k) ==
  Cardinality({i \in 1..Len(m) : KeyLess(m[i].first, k)})

\* A container that inserts a node on every assignment (what a multimap or
\* a vector push_back would do).
MapAssign_AlwaysInsert(m, k, v) ==
  LET n == MapLowerBound(m, k)
  IN  SubSeq(m, 1, n) \o <<[first |-> k, second |-> v]>>
        \o SubSeq(m, n + 1, Len(m))

\* An assignment that copies the signature into an existing node without
\* its max_file_size (a member-wise copy that forgets one member).
MapAssign_PartialCopy(m, k, v) ==
  IF \E i \in 1..Len(m) : m[i].first = k
  THEN LET i == CHOOSE j \in 1..Len(m) : m[j].first = k
       IN  [m EXCEPT ![i].second =
              [v EXCEPT !.max_file_size = m[i].second.max_file_size]]
  ELSE MapAssign_AlwaysInsert(m, k, v)

\* signatures_[k] = v : operator[] finds or default-inserts, then assigns.
MapAssign(m, k, v) ==
  LET i == MapFind(m, k)
      n == MapLowerBound(m, k)
  IN  IF i # 0
      THEN [m EXCEPT ![i].second = v]
      ELSE SubSeq(m, 1, n) \o <<[first |-> k, second |-> v]>>
             \o SubSeq(m, n + 1, Len(m))

\* AddSignature's effect on the registry.
AddSignatureTo(sigs, signature) ==
  MapAssign(sigs, signature.file_type, signature)

RECURSIVE AddAll(_, _, _)
AddAll(sigs, list, i) ==
  IF i > Len(list) THEN sigs
  ELSE AddAll(AddSignatureTo(sigs, list[i]), list, i + 1)

\* A loader that rebuilds the registry from scratch.
LoadDefaultSignatures_Rebuild(sigs) == AddAll(<< >>, DefaultSignatures, 1)

LoadDefaultSignatures(sigs) == AddAll(sigs, DefaultSignatures, 1)

\* The vector GetSupportedFileTypes builds by iterating over signatures_.
GetSupportedFileTypes(sigs) == [i \in 1..Len(sigs) |-> sigs[i].first]

\* -------------------------------------------------------------- stats ----
\* A constructor that leaves stats_ uninitialised (one possible garbage value).
CtorStats_Uninitialised ==
  [bytes_scanned |-> 7, files_found |-> 0, files_carved |-> 0,
   scan_time_seconds |-> 0]

\* stats_ = {0, 0, 0, 0.0} in the constructor.
CtorStats ==
  [bytes_scanned |-> 0, files_found |-> 0, files_carved |-> 0,
   scan_time_seconds |-> 0]

\* A reset whose initialiser list has a 1 where files_carved is.
ResetStats_WrongLiteral ==
  [bytes_scanned |-> 0, files_found |-> 0, files_carved |-> 1,
   scan_time_seconds |-> 0]

\* stats_ = {0, 0, 0, 0.0} at the start of CarveFiles.
ResetStats ==
  [bytes_scanned |-> 0, files_found |-> 0, files_carved |-> 0,
   scan_time_seconds |-> 0]

\* max_scan_size_(1024ULL * 1024 * 1024 * 1024) in the constructor: 1 TB.
DefaultMaxScanSize == GiB(1024)

\* A body that counts every byte of the source as scanned, whatever the cap.
CarveBody_ScanAll(stats, source, cap) ==
  [stats EXCEPT !.bytes_scanned = Len(source)]

\* A body that counts a written file without counting the candidate.
CarveBody_CarvedNotFound(stats, source, cap) ==
  [stats EXCEPT !.files_carved = @ + 1]

\* What the body of CarveFiles does to stats_: the carving steps are a TODO
\* comment, so no counter is touched.
CarveBody(stats, source, cap) == stats

\* What the body of CarveFiles does to the output directory: nothing is
\* extracted.
CarveOutput(files, source, sigs) == files

\* The value CarveFiles returns.
CarveFilesResult == 0

\* -------------------------------------------------------------- state ----
VARIABLES
  signatures_,      \* the engine's registry, file_type -> FileSignature
  max_scan_size_,   \* cap set by SetMaxScanSize
  stats_,           \* CarvingStats
  pc,               \* each caller's position in CarveFiles
  carve_source,     \* contents of the device of each caller's CarveFiles
  carve_ret,        \* <<v>>: what the caller's last CarveFiles returned
  output_files,     \* the files present in output_dir
  returned_stats,   \* <<s>>: the last GetStats result
  init_calls,       \* number of Initialize calls so far (capped)
  carve_called,     \* has CarveFiles ever been called
  entered_busy,     \* did the caller's CarveFiles start while another ran
  last_sample,      \* <<n>>: the last bytes_scanned sampled during the
                    \* caller's current run
  stop_requested,   \* was a stop asked for during the caller's current or
                    \* last run
  m_data,           \* the buffer behind the data pointer of the matcher
  m_start,          \* FindFooter's start / the offset MatchesSignature is
                    \* applied at
  m_max_size,       \* FindFooter's max_size / the end of the window
  m_footer,         \* the footer (or header) bytes searched for
  find_result,      \* <<o>>: the outcome of the FindFooter call
  match_result,     \* <<b>>: the result of the MatchesSignature call
  current_device_,  \* MainWindow: path of the chosen device, "" if none
  is_scanning_,     \* MainWindow: a scan is in progress
  btn_enabled,      \* MainWindow: enabled state of the five push buttons
  action_enabled,   \* MainWindow: enabled state of the three menu actions
  lbl_status_,      \* MainWindow: text of the status label
  progress_timers,  \* MainWindow: number of running progress timers
  engine_scanning,  \* what recovery_engine_->IsScanning() returns
  user_stopped,     \* onStopScan has run since the last started scan
  completions,      \* onScanCompleted runs since the last started scan
  wizard_state,     \* DeviceWizard: "none" (not created), "closed", "open"
  devices_,         \* DeviceWizard: the listed devices
  selected_index_,  \* DeviceWizard: index of the chosen device or -1
  btn_ok_,          \* DeviceWizard: enabled state of the OK button
  dialog_result,    \* DeviceWizard: <<r>>, how the last exec() ended
  argv,             \* CLI: the arguments after the program name
  options_,         \* CLI: the parsed options
  cli_pc,           \* CLI: position inside Run
  cli_result,       \* CLI: <<r>>, what Run returned or the exit status
  carver_calls,     \* CLI: the calls made on HandleCarve's local engine
  carve_handled     \* CLI: <<h>>, the paths the last HandleCarve ran with
                    \* and what it returned

vars ==
  <<signatures_, max_scan_size_, stats_, pc, carve_source, carve_ret,
    output_files, returned_stats, init_calls, carve_called,
    entered_busy, last_sample, stop_requested, m_data, m_start, m_max_size,
    m_footer, find_result, match_result, current_device_, is_scanning_,
    btn_enabled, action_enabled, lbl_status_, progress_timers,
    engine_scanning, user_stopped, completions, wizard_state, devices_,
    selected_index_, btn_ok_, dialog_result, argv, options_, cli_pc,
    cli_result, carver_calls, carve_handled>>

\* The engine's fields and the bookkeeping of its callers.
engine_vars ==
  <<signatures_, max_scan_size_, stats_, pc, carve_source, carve_ret,
    output_files, returned_stats, init_calls, carve_called,
    entered_busy, last_sample, stop_requested>>

\* What the engine's own operations never touch.
matcher_vars ==
  <<m_data, m_start, m_max_size, m_footer, find_result, match_result>>

window_vars ==
  <<current_device_, is_scanning_, btn_enabled, action_enabled, lbl_status_,
    progress_timers, engine_scanning, user_stopped, completions>>

wizard_vars ==
  <<wizard_state, devices_, selected_index_, btn_ok_, dialog_result>>

cli_vars ==
  <<argv, options_, cli_pc, cli_result, carver_calls, carve_handled>>

\* The front ends, which the engine never touches.
front_vars == <<window_vars, wizard_vars, cli_vars>>

side_vars == <<stop_requested, matcher_vars, front_vars>>

\* FileCarvingEngine::FileCarvingEngine, on an empty output directory.
EngineInit ==
  /\ signatures_ = << >>
  /\ max_scan_size_ = DefaultMaxScanSize
  /\ stats_ = CtorStats
  /\ pc = [t \in Callers |-> "idle"]
  /\ carve_source = [t \in Callers |-> << >>]
  /\ carve_ret = [t \in Callers |-> << >>]
  /\ output_files = << >>
  /\ returned_stats = << >>
  /\ init_calls = 0
  /\ carve_called = FALSE
  /\ entered_busy = [t \in Callers |-> FALSE]
  /\ last_sample = [t \in Callers |-> << >>]
  /\ stop_requested = [t \in Callers |-> FALSE]

\* No call of the private helpers MatchesSignature and FindFooter is pending.
MatcherIdle ==
  /\ m_data = << >>
  /\ m_start = 0
  /\ m_max_size = 0
  /\ m_footer = << >>
  /\ find_result = << >>
  /\ match_result = << >>

\* MainWindow::MainWindow: SetupUI and SetupMenuBar disable Start Scan, Stop
\* Scan and the two Recover buttons, the status label reads "Ready", no
\* device is chosen, no wizard exists and no timer runs.
WindowInit ==
  /\ current_device_ = ""
  /\ is_scanning_ = FALSE
  /\ btn_enabled = [select_device |-> TRUE, start_scan |-> FALSE,
                    stop_scan |-> FALSE, recover_selected |-> FALSE,
                    recover_all |-> FALSE]
  /\ action_enabled = [select_device |-> TRUE, start_scan |-> FALSE,
                       stop_scan |-> FALSE]
  /\ lbl_status_ = "Ready"
  /\ progress_timers = 0
  /\ engine_scanning = FALSE
  /\ user_stopped = FALSE
  /\ completions = 0
  /\ wizard_state = "none"
  /\ devices_ = << >>
  /\ selected_index_ = -1
  /\ btn_ok_ = FALSE
  /\ dialog_result = << >>

\* CLI::CLI: the flags are cleared, the strings are empty, Run has not been
\* called.
CtorOptions ==
  [interactive |-> FALSE, verbose |-> FALSE, list_devices |-> FALSE,
   export_csv |-> FALSE, device_path |-> "", output_path |-> "",
   mode |-> "", file_types |-> << >>, export_path |-> ""]

CliIdle ==
  /\ argv = << >>
  /\ options_ = CtorOptions
  /\ cli_pc = "start"
  /\ cli_result = << >>
  /\ carver_calls = << >>
  /\ carve_handled = << >>

Init == EngineInit /\ MatcherIdle /\ WindowInit /\ CliIdle

\* bool Initialize(): LoadDefaultSignatures, log, return true.
Initialize ==
  /\ signatures_' = LoadDefaultSignatures(signatures_)
  /\ init_calls' = IF init_calls < MaxInitCalls THEN init_calls + 1
                   ELSE init_calls
  /\ UNCHANGED <<max_scan_size_, stats_, pc, carve_source, carve_ret,
                 output_files, returned_stats, carve_called,
                 entered_busy, last_sample>>
  /\ UNCHANGED side_vars

\* void AddSignature(const FileSignature&)
AddSignature(signature) ==
  /\ signatures_' = AddSignatureTo(signatures_, signature)
  /\ UNCHANGED <<max_scan_size_, stats_, pc, carve_source, carve_ret,
                 output_files, returned_stats, init_calls,
                 carve_called, entered_busy, last_sample>>
  /\ UNCHANGED side_vars

\* std::vector<std::string> GetSupportedFileTypes() const
GetSupportedFileTypesCall ==
  /\ GetSupportedFileTypes(signatures_) \in Seq(STRING)
  /\ UNCHANGED vars

\* SetMaxScanSize as it would be if it also emptied the registry.
SetMaxScanSize_ClearsRegistry(size) ==
  /\ max_scan_size_' = size
  /\ signatures_' = << >>
  /\ UNCHANGED <<stats_, pc, carve_source, carve_ret,
                 output_files, returned_stats, init_calls,
                 carve_called, entered_busy, last_sample>>
  /\ UNCHANGED side_vars

\* void SetMaxScanSize(uint64_t size)
SetMaxScanSize(size) ==
  /\ max_scan_size_' = size
  /\ UNCHANGED <<signatures_, stats_, pc, carve_source, carve_ret,
                 output_files, returned_stats, init_calls,
                 carve_called, entered_busy, last_sample>>
  /\ UNCHANGED side_vars

\* CarvingStats GetStats() const: a copy of stats_.  A caller inside
\* CarveFiles has its run sampled by it.  stats_ is a plain struct without
\* a lock, so a copy taken while CarveFiles assigns it may mix fields of the
\* old and the new value; both are {0, 0, 0, 0.0} in every reachable state,
\* so every mix is the value modelled here.
GetStats ==
  /\ returned_stats' = <<stats_>>
  /\ last_sample' = [t \in Callers |->
                       IF pc[t] # "idle" THEN <<stats_.bytes_scanned>>
                       ELSE last_sample[t]]
  /\ UNCHANGED <<signatures_, max_scan_size_, stats_, pc, carve_source,
                 carve_ret, output_files, init_calls,
                 carve_called, entered_busy>>
  /\ UNCHANGED side_vars

\* CarveFiles, entry: the "Starting file carving" log line.  Nothing in the
\* function checks whether another call is active.
CarveFilesCall(t, source) ==
  /\ pc[t] = "idle"
  /\ pc' = [pc EXCEPT ![t] = "reset"]
  /\ carve_source' = [carve_source EXCEPT ![t] = source]
  /\ carve_ret' = [carve_ret EXCEPT ![t] = << >>]
  /\ entered_busy' = [entered_busy EXCEPT
                        ![t] = \E u \in Callers \ {t} : pc[u] # "idle"]
  /\ last_sample' = [last_sample EXCEPT ![t] = << >>]
  /\ carve_called' = TRUE
  /\ UNCHANGED <<signatures_, max_scan_size_, stats_, output_files,
                 returned_stats, init_calls>>
  /\ stop_requested' = [stop_requested EXCEPT ![t] = FALSE]
  /\ UNCHANGED <<matcher_vars, front_vars>>

\* CarveFiles: "Reset stats".
CarveFilesReset(t) ==
  /\ pc[t] = "reset"
  /\ stats_' = ResetStats
  /\ pc' = [pc EXCEPT ![t] = "carve"]
  /\ UNCHANGED <<signatures_, max_scan_size_, carve_source, carve_ret,
                 output_files, returned_stats, init_calls,
                 carve_called, entered_busy, last_sample>>
  /\ UNCHANGED side_vars

\* CarveFiles: the TODO body.  Nothing is opened, scanned, matched or
\* extracted, and the warning "not fully implemented yet" is logged.
CarveFilesBody(t) ==
  /\ pc[t] = "carve"
  /\ stats_' = CarveBody(stats_, carve_source[t], max_scan_size_)
  /\ output_files' = CarveOutput(output_files, carve_source[t], signatures_)
  /\ pc' = [pc EXCEPT ![t] = "return"]
  /\ UNCHANGED <<signatures_, max_scan_size_, carve_source, carve_ret,
                 returned_stats, init_calls, carve_called, entered_busy,
                 last_sample>>
  /\ UNCHANGED side_vars

\* CarveFiles: "return 0".
CarveFilesReturn(t) ==
  /\ pc[t] = "return"
  /\ carve_ret' = [carve_ret EXCEPT ![t] = <<CarveFilesResult>>]
  /\ pc' = [pc EXCEPT ![t] = "idle"]
  /\ last_sample' = [last_sample EXCEPT ![t] = << >>]
  /\ UNCHANGED <<signatures_, max_scan_size_, stats_, carve_source,
                 output_files, returned_stats, init_calls, carve_called,
                 entered_busy>>
  /\ UNCHANGED side_vars

Next ==
  \/ Initialize
  \/ \E signature \in SignatureInputs : AddSignature(signature)
  \/ GetSupportedFileTypesCall
  \/ \E size \in MaxScanSizeInputs : SetMaxScanSize(size)
  \/ GetStats
  \/ \E t \in Callers, source \in Sources : CarveFilesCall(t, source)
  \/ \E t \in Callers : CarveFilesReset(t)
  \/ \E t \in Callers : CarveFilesBody(t)
  \/ \E t \in Callers : CarveFilesReturn(t)

Spec == Init /\ [][Next]_vars

\* ------------------------------------- registry with unchecked input ----
\* The registry operations with a malformed signature among the arguments
\* of AddSignature.
NextRegistry ==
  \/ Initialize
  \/ \E signature \in SignatureInputs \cup {MalformedSig} :
       AddSignature(signature)
  \/ GetSupportedFileTypesCall
  \/ \E size \in MaxScanSizeInputs : SetMaxScanSize(size)
  \/ GetStats

SpecRegistry == Init /\ [][NextRegistry]_vars

\* ------------------------------------------------------ stop requests ----
\* Another thread of control wants the running scan stopped.  The engine
\* has no StopScan member, no cancellation flag and no chunk loop that could
\* test one, so the request reaches nothing CarveFiles reads; only the
\* bookkeeping of who was running is kept.
StopScanRequest ==
  /\ \E t \in Callers : pc[t] # "idle"
  /\ stop_requested' = [t \in Callers |->
                          IF pc[t] # "idle" THEN TRUE ELSE stop_requested[t]]
  /\ UNCHANGED <<signatures_, max_scan_size_, stats_, pc, carve_source,
                 carve_ret, output_files, returned_stats, init_calls,
                 carve_called, entered_busy, last_sample, matcher_vars,
                 front_vars>>

\* The scan driver state of caller t, as far as the code has one: a call is
\* in progress or not, and CarveFiles has one exit, the normal "return 0".
RunState(t) ==
  IF pc[t] # "idle" THEN "Scanning"
  ELSE IF carve_ret[t] = << >> THEN "Idle"
  ELSE "Completed"

NextStop ==
  \/ Initialize
  \/ GetStats
  \/ \E t \in Callers, source \in Sources : CarveFilesCall(t, source)
  \/ \E t \in Callers : CarveFilesReset(t)
  \/ \E t \in Callers : CarveFilesBody(t)
  \/ \E t \in Callers : CarveFilesReturn(t)
  \/ StopScanRequest

SpecStop == Init /\ [][NextStop]_vars

\* ------------------------------------------------------------ matcher ----
\* size_t arithmetic is modular.  The modulus 2^64 does not fit TLC's
\* integers; 2^30 stands for it, which is just as far above every index of
\* the buffers used here.
SizeModulus == 1024 * 1024 * 1024

\* a - b in size_t.
SizeSub(a, b) == (a - b + SizeModulus) % SizeModulus

\* A MatchesSignature without the "size < signature.size()" test.
MatchesSignature_NoSizeCheck(data, off, size, signature) ==
  LET idx == {off + k - 1 : k \in 1..Len(signature)}
  IN  IF \E j \in idx : j >= Len(data)
      THEN [match |-> FALSE, reads |-> idx, ub |-> TRUE]
      ELSE [match |-> \A k \in 1..Len(signature) :
                        data[off + k] = signature[k],
            reads |-> idx, ub |-> FALSE]

\* bool MatchesSignature(const uint8_t* data, size_t size, signature), the
\* pointer being the buffer `data` advanced by off (0-based).  reads: the
\* indices of the buffer memcmp may read.  ub: memcmp was handed bytes that
\* lie behind the end of the buffer, so the result is not defined.
MatchesSignature(data, off, size, signature) ==
  IF size < Len(signature)
  THEN [match |-> FALSE, reads |-> {}, ub |-> FALSE]
  ELSE LET idx == {off + k - 1 : k \in 1..Len(signature)}
       IN  IF \E j \in idx : j >= Len(data)
           THEN [match |-> FALSE, reads |-> idx, ub |-> TRUE]
           ELSE [match |-> \A k \in 1..Len(signature) :
                             data[off + k] = signature[k],
                 reads |-> idx, ub |-> FALSE]

\* The for loop of FindFooter from index i on, reads being the indices read
\* so far.  The result is the set of outcomes the call can have: one record
\* when every read is inside the buffer; when memcmp runs behind the buffer
\* the call may report that position as a match or fault.
RECURSIVE FindFooterLoop(_, _, _, _, _)
FindFooterLoop(data, i, max_size, footer, reads) ==
  IF ~(i < SizeSub(max_size, Len(footer)))
  THEN {[result |-> 0, reads |-> reads, crashed |-> FALSE]}
  ELSE LET m == MatchesSignature(data, i, SizeSub(max_size, i), footer)
       IN  IF m.ub
           THEN {[result |-> i + Len(footer), reads |-> reads \cup m.reads,
                  crashed |-> FALSE],
                 [result |-> 0, reads |-> reads \cup m.reads,
                  crashed |-> TRUE]}
           ELSE IF m.match
           THEN {[result |-> i + Len(footer), reads |-> reads \cup m.reads,
                  crashed |-> FALSE]}
           ELSE FindFooterLoop(data, i + 1, max_size, footer,
                               reads \cup m.reads)

\* A FindFooter without the footer.empty() test.
FindFooter_NoEmptyCheck(data, start, max_size, footer) ==
  FindFooterLoop(data, start, max_size, footer, {})

\* uint64_t FindFooter(const uint8_t* data, size_t start, size_t max_size,
\*                     const std::vector<uint8_t>& footer)
FindFooter(data, start, max_size, footer) ==
  IF footer = << >>
  THEN {[result |-> 0, reads |-> {}, crashed |-> FALSE]}
  ELSE FindFooterLoop(data, start, max_size, footer, {})

\* Byte values of the buffers and patterns (FF and D9, the JPEG footer).
ByteInputs == {255, 217}

SeqsUpTo(S, n) == UNION {[1..k -> S] : k \in 0..n}

\* Footers (or headers) searched for, the empty one included.
PatternInputs == SeqsUpTo(ByteInputs, 2)

\* A pending call of the helpers: a buffer, a start offset in it, a limit
\* that does not exceed the buffer, and a pattern.
MatcherInit ==
  /\ m_data \in SeqsUpTo(ByteInputs, MaxWindow)
  /\ m_start \in 0..Len(m_data)
  /\ m_max_size \in 0..Len(m_data)
  /\ m_footer \in PatternInputs
  /\ find_result = << >>
  /\ match_result = << >>

\* FindFooter(data, start, max_size, footer) is called and returns or faults.
FindFooterCall ==
  /\ find_result = << >>
  /\ \E o \in FindFooter(m_data, m_start, m_max_size, m_footer) :
       find_result' = <<o>>
  /\ UNCHANGED <<signatures_, max_scan_size_, stats_, pc, carve_source,
                 carve_ret, output_files, returned_stats, init_calls,
                 carve_called, entered_busy, last_sample, stop_requested,
                 m_data, m_start, m_max_size, m_footer, match_result>>
  /\ UNCHANGED front_vars

\* MatchesSignature(data + start, max_size - start, pattern) is called on
\* the window [start, max_size) of the buffer.
MatchesSignatureCall ==
  /\ match_result = << >>
  /\ m_start <= m_max_size
  /\ LET m == MatchesSignature(m_data, m_start, m_max_size - m_start,
                               m_footer)
     IN  match_result' \in (IF m.ub THEN {<<TRUE>>, <<FALSE>>}
                            ELSE {<<m.match>>})
  /\ UNCHANGED <<signatures_, max_scan_size_, stats_, pc, carve_source,
                 carve_ret, output_files, returned_stats, init_calls,
                 carve_called, entered_busy, last_sample, stop_requested,
                 m_data, m_start, m_max_size, m_footer, find_result>>
  /\ UNCHANGED front_vars

NextMatcher ==
  \/ FindFooterCall
  \/ MatchesSignatureCall

\* A constructed engine and a pending call of the helpers.
InitMatcher == EngineInit /\ MatcherInit /\ WindowInit /\ CliIdle

SpecMatcher == InitMatcher /\ [][NextMatcher]_vars

\* ------------------------------------------------------- DeviceWizard ----
\* DeviceWizard::ScanAvailableDevices: the three mock devices.
ScanAvailableDevices ==
  << [path |-> "/dev/sda1", name |-> "System Disk - Partition 1",
      filesystem |-> "NTFS", size_bytes |-> GiB(500), is_mounted |-> TRUE],
     [path |-> "/dev/sdb1", name |-> "External Drive",
      filesystem |-> "ext4", size_bytes |-> GiB(1024), is_mounted |-> FALSE],
     [path |-> "/dev/disk2s1", name |-> "USB Flash Drive",
      filesystem |-> "FAT32", size_bytes |-> GiB(32), is_mounted |-> TRUE] >>

\* The Qt::UserRole values of the items of device_list_: one item per device
\* carrying its index, or the single "No devices found" item, which carries
\* no data (toInt() gives 0).
ListItems(devices) ==
  IF devices = << >> THEN {0} ELSE 0..(Len(devices) - 1)

\* std::string DeviceWizard::GetSelectedDevice() const
GetSelectedDevice(devices, index) ==
  IF index >= 0 /\ index < Len(devices) THEN devices[index + 1].path
  ELSE ""

\* LoadDevices as it would be if it forgot to reset selected_index_.
LoadDevices_KeepsSelection ==
  /\ selected_index_' = selected_index_
  /\ btn_ok_' = FALSE
  /\ devices_' = ScanAvailableDevices

\* void DeviceWizard::LoadDevices(): the list and devices_ are cleared, the
\* selection is reset, OK is disabled, and the list is filled again.
LoadDevices ==
  /\ selected_index_' = -1
  /\ btn_ok_' = FALSE
  /\ devices_' = ScanAvailableDevices

\* The dialog reacts to the user only while exec() runs.
WizardOpen == wizard_state = "open"

\* Refresh clicked: onRefreshDevices.
onRefreshDevices ==
  /\ WizardOpen
  /\ LoadDevices
  /\ UNCHANGED <<wizard_state, dialog_result>>
  /\ UNCHANGED <<engine_vars, matcher_vars, window_vars, cli_vars>>

\* itemClicked: onDeviceSelected(item), item carrying the index `index`.
onDeviceSelected(index) ==
  /\ WizardOpen
  /\ IF index >= 0 /\ index < Len(devices_)
     THEN selected_index_' = index /\ btn_ok_' = TRUE
     ELSE UNCHANGED <<selected_index_, btn_ok_>>
  /\ UNCHANGED <<wizard_state, devices_, dialog_result>>
  /\ UNCHANGED <<engine_vars, matcher_vars, window_vars, cli_vars>>

\* QDialog::accept / reject: exec() ends with that result.
DialogDone(result) ==
  /\ wizard_state' = "done"
  /\ dialog_result' = <<result>>

\* itemDoubleClicked: the lambda of SetupUI.
onItemDoubleClicked ==
  /\ WizardOpen
  /\ IF selected_index_ >= 0
     THEN DialogDone("Accepted")
     ELSE UNCHANGED <<wizard_state, dialog_result>>
  /\ UNCHANGED <<devices_, selected_index_, btn_ok_>>
  /\ UNCHANGED <<engine_vars, matcher_vars, window_vars, cli_vars>>

\* OK clicked (only an enabled button emits clicked): QDialog::accept.
onOkClicked ==
  /\ WizardOpen
  /\ btn_ok_
  /\ DialogDone("Accepted")
  /\ UNCHANGED <<devices_, selected_index_, btn_ok_>>
  /\ UNCHANGED <<engine_vars, matcher_vars, window_vars, cli_vars>>

\* Cancel clicked, Escape or the close box: QDialog::reject.
onCancelClicked ==
  /\ WizardOpen
  /\ DialogDone("Rejected")
  /\ UNCHANGED <<devices_, selected_index_, btn_ok_>>
  /\ UNCHANGED <<engine_vars, matcher_vars, window_vars, cli_vars>>

\* --------------------------------------------------------- MainWindow ----
\* Running progress timers the model follows at most.
MaxTimers == 2

\* EnableControls as it would be if Stop Scan followed `enable` like the
\* other two controls.
EnableControls_StopFollowsEnable(controls, enable, device) ==
  [controls EXCEPT !.select_device = enable,
                   !.start_scan = enable /\ device # "",
                   !.stop_scan = enable]

\* void MainWindow::EnableControls(bool enable), applied to the buttons and
\* to the menu actions alike.
EnableControls(controls, enable, device) ==
  [controls EXCEPT !.select_device = enable,
                   !.start_scan = enable /\ device # "",
                   !.stop_scan = ~enable]

\* The main window reacts to clicks only while no modal dialog is open.
WindowActive == wizard_state \in {"none", "closed"}

\* onSelectDevice up to exec(): the wizard is created on first use (its
\* constructor runs SetupUI and LoadDevices) and shown.
onSelectDevice ==
  /\ WindowActive
  /\ btn_enabled.select_device
  /\ IF wizard_state = "none"
     THEN LoadDevices
     ELSE UNCHANGED <<devices_, selected_index_, btn_ok_>>
  /\ wizard_state' = "open"
  /\ dialog_result' = << >>
  /\ UNCHANGED <<engine_vars, matcher_vars, window_vars, cli_vars>>

\* onSelectDevice after exec(): on Accepted the device is taken over and
\* given to the engine; set_ok is what recovery_engine_->SetDevice returns.
onSelectDeviceReturn(set_ok) ==
  /\ wizard_state = "done"
  /\ wizard_state' = "closed"
  /\ IF dialog_result = <<"Accepted">>
     THEN /\ current_device_' = GetSelectedDevice(devices_, selected_index_)
          /\ IF set_ok
             THEN /\ btn_enabled' = [btn_enabled EXCEPT !.start_scan = TRUE]
                  /\ action_enabled' =
                       [action_enabled EXCEPT !.start_scan = TRUE]
             ELSE UNCHANGED <<btn_enabled, action_enabled>>
     ELSE UNCHANGED <<current_device_, btn_enabled, action_enabled>>
  /\ UNCHANGED <<is_scanning_, lbl_status_, progress_timers, engine_scanning,
                 user_stopped, completions>>
  /\ UNCHANGED <<devices_, selected_index_, btn_ok_, dialog_result>>
  /\ UNCHANGED <<engine_vars, matcher_vars, cli_vars>>

\* onStartScan; started is what recovery_engine_->StartScan() returns.  A
\* started scan gets a new QTimer whose timeout lambda polls the engine
\* every 100 ms.
onStartScan(started) ==
  /\ WindowActive
  /\ btn_enabled.start_scan
  /\ progress_timers < MaxTimers
  /\ IF current_device_ # "" /\ started
     THEN /\ is_scanning_' = TRUE
          /\ btn_enabled' = EnableControls(btn_enabled, FALSE, current_device_)
          /\ action_enabled' =
               EnableControls(action_enabled, FALSE, current_device_)
          /\ lbl_status_' = "Scanning..."
          /\ progress_timers' = progress_timers + 1
          /\ engine_scanning' = TRUE
          /\ user_stopped' = FALSE
          /\ completions' = 0
     ELSE UNCHANGED <<is_scanning_, btn_enabled, action_enabled, lbl_status_,
                      progress_timers, engine_scanning, user_stopped,
                      completions>>
  /\ UNCHANGED current_device_
  /\ UNCHANGED <<engine_vars, matcher_vars, wizard_vars, cli_vars>>

\* onStopScan; still_running: the engine is still scanning when StopScan()
\* returns.  No timer is stopped.
onStopScan(still_running) ==
  /\ WindowActive
  /\ btn_enabled.stop_scan
  /\ engine_scanning' = (engine_scanning /\ still_running)
  /\ is_scanning_' = FALSE
  /\ btn_enabled' = EnableControls(btn_enabled, TRUE, current_device_)
  /\ action_enabled' = EnableControls(action_enabled, TRUE, current_device_)
  /\ lbl_status_' = "Scan stopped"
  /\ user_stopped' = TRUE
  /\ UNCHANGED <<current_device_, progress_timers, completions>>
  /\ UNCHANGED <<engine_vars, matcher_vars, wizard_vars, cli_vars>>

\* void MainWindow::onScanCompleted(), the slot of scanCompleted (a direct
\* connection: it runs inside the emit).
onScanCompleted ==
  /\ is_scanning_' = FALSE
  /\ btn_enabled' =
       [EnableControls(btn_enabled, TRUE, current_device_)
          EXCEPT !.recover_selected = TRUE, !.recover_all = TRUE]
  /\ action_enabled' = EnableControls(action_enabled, TRUE, current_device_)
  /\ lbl_status_' = "Scan completed"
  /\ completions' = completions + 1

\* A timeout of one of the progress timers: the lambda of onStartScan.  The
\* progress bar and the files-found label, which show engine statistics, are
\* not followed.  The event loop also runs while the wizard is open.
ProgressTimerTick ==
  /\ progress_timers > 0
  /\ IF ~engine_scanning
     THEN /\ progress_timers' = progress_timers - 1
          /\ onScanCompleted
     ELSE UNCHANGED <<is_scanning_, btn_enabled, action_enabled, lbl_status_,
                      progress_timers, completions>>
  /\ UNCHANGED <<current_device_, engine_scanning, user_stopped>>
  /\ UNCHANGED <<engine_vars, matcher_vars, wizard_vars, cli_vars>>

\* The engine's scan comes to its end (or to the stop it was asked for).
EngineScanEnds ==
  /\ engine_scanning
  /\ engine_scanning' = FALSE
  /\ UNCHANGED <<current_device_, is_scanning_, btn_enabled, action_enabled,
                 lbl_status_, progress_timers, user_stopped, completions>>
  /\ UNCHANGED <<engine_vars, matcher_vars, wizard_vars, cli_vars>>

NextWindow ==
  \/ onSelectDevice
  \/ onRefreshDevices
  \/ \E index \in ListItems(devices_) : onDeviceSelected(index)
  \/ onItemDoubleClicked
  \/ onOkClicked
  \/ onCancelClicked
  \/ \E set_ok \in BOOLEAN : onSelectDeviceReturn(set_ok)
  \/ \E started \in BOOLEAN : onStartScan(started)
  \/ \E still_running \in BOOLEAN : onStopScan(still_running)
  \/ ProgressTimerTick
  \/ EngineScanEnds

SpecWindow == Init /\ [][NextWindow]_vars

\* ---------------------------------------------------------------- CLI ----
\* Option groups the command line is put together from at most.
MaxArgGroups == 3

\* The arguments tried: the help option, the two special commands, a mode
\* (known, unknown, missing), and the two paths (given, empty, looking like
\* an option).
ArgGroups ==
  { <<"-h">>, <<"-l">>, <<"-i">>,
    <<"-m", "carve">>, <<"-m", "scan">>, <<"-m", "bogus">>, <<"-m">>,
    <<"-d", "/dev/sda1">>, <<"-d", "">>, <<"-d", "-h">>,
    <<"-o", "out">>, <<"-o", "">> }

RECURSIVE ArgLines(_)
ArgLines(n) ==
  IF n = 0 THEN {<< >>}
  ELSE ArgLines(n - 1)
         \cup {line \o g : line \in ArgLines(n - 1), g \in ArgGroups}

ArgvInputs == ArgLines(MaxArgGroups)

\* argv[i + 1][0] == '-' for the arguments used here.
StartsWithDash(arg) ==
  arg \in {"-h", "--version", "-l", "-i", "--verbose", "-m", "-d", "-o",
           "-t", "--export-csv"}

\* The for loop of ParseArguments from argv[i] on; args is argv without the
\* program name, so argc = Len(args) + 1.  -h and -v print and call exit(0).
RECURSIVE ParseLoop(_, _, _)
ParseLoop(args, i, opts) ==
  IF i > Len(args) THEN [outcome |-> "true", options |-> opts]
  ELSE
    LET arg == args[i]
        has_next == i + 1 < Len(args) + 1
    IN  IF arg \in {"-h", "--help", "-v", "--version"}
        THEN [outcome |-> "exit", options |-> opts]
        ELSE IF arg \in {"-l", "--list-devices"}
        THEN ParseLoop(args, i + 1, [opts EXCEPT !.list_devices = TRUE])
        ELSE IF arg \in {"-i", "--interactive"}
        THEN ParseLoop(args, i + 1, [opts EXCEPT !.interactive = TRUE])
        ELSE IF arg = "--verbose"
        THEN ParseLoop(args, i + 1, [opts EXCEPT !.verbose = TRUE])
        ELSE IF arg \in {"-d", "--device"}
        THEN IF has_next
             THEN ParseLoop(args, i + 2,
                            [opts EXCEPT !.device_path = args[i + 1]])
             ELSE ParseLoop(args, i + 1, opts)
        ELSE IF arg \in {"-o", "--output"}
        THEN IF has_next
             THEN ParseLoop(args, i + 2,
                            [opts EXCEPT !.output_path = args[i + 1]])
             ELSE ParseLoop(args, i + 1, opts)
        ELSE IF arg \in {"-m", "--mode"}
        THEN IF has_next
             THEN ParseLoop(args, i + 2, [opts EXCEPT !.mode = args[i + 1]])
             ELSE ParseLoop(args, i + 1, opts)
        ELSE IF arg \in {"-t", "--type"}
        THEN IF has_next
             THEN ParseLoop(args, i + 2,
                            [opts EXCEPT !.file_types =
                                           Append(@, args[i + 1])])
             ELSE ParseLoop(args, i + 1, opts)
        ELSE IF arg = "--export-csv"
        THEN IF has_next /\ ~StartsWithDash(args[i + 1])
             THEN ParseLoop(args, i + 2,
                            [opts EXCEPT !.export_csv = TRUE,
                                         !.export_path = args[i + 1]])
             ELSE ParseLoop(args, i + 1,
                            [opts EXCEPT !.export_csv = TRUE,
                                         !.export_path = "results.csv"])
        ELSE ParseLoop(args, i + 1, opts)

\* bool CLI::ParseArguments(int argc, char* argv[])
ParseArguments(args, opts) ==
  IF Len(args) + 1 < 2 THEN [outcome |-> "false", options |-> opts]
  ELSE ParseLoop(args, 1, opts)

Returned(code) == [kind |-> "return", code |-> code]
Exited(code) == [kind |-> "exit", code |-> code]

\* What the interactive menu reads from standard input.
ChoiceInputs == {"1", "2", "3", "4", "5", "x"}
PathInputs == {"", "/dev/sda1"}

\* The engine's bookkeeping of concurrent callers, which the CLI (one thread,
\* one local engine per HandleCarve) does not use.
caller_vars ==
  <<pc, carve_source, carve_ret, init_calls, carve_called, entered_busy,
    last_sample, stop_requested>>

\* Run has been called with one of the command lines.
CliStart ==
  /\ argv \in ArgvInputs
  /\ options_ = CtorOptions
  /\ cli_pc = "start"
  /\ cli_result = << >>
  /\ carver_calls = << >>
  /\ carve_handled = << >>

InitCli == EngineInit /\ MatcherIdle /\ WindowInit /\ CliStart

\* Run: ParseArguments; when it fails, PrintHelp and return 1.
RunParse ==
  /\ cli_pc = "start"
  /\ LET p == ParseArguments(argv, options_)
     IN  /\ options_' = p.options
         /\ cli_pc' = IF p.outcome = "exit" THEN "exited"
                      ELSE IF p.outcome = "false" THEN "done"
                      ELSE "dispatch"
         /\ cli_result' = IF p.outcome = "exit" THEN <<Exited(0)>>
                          ELSE IF p.outcome = "false" THEN <<Returned(1)>>
                          ELSE cli_result
  /\ UNCHANGED <<argv, carver_calls, carve_handled>>
  /\ UNCHANGED <<engine_vars, matcher_vars, window_vars, wizard_vars>>

\* Run after parsing: the special commands, then the mode.
RunDispatch ==
  /\ cli_pc = "dispatch"
  /\ IF options_.list_devices
     THEN cli_pc' = "done" /\ cli_result' = <<Returned(0)>>
     ELSE IF options_.interactive
     THEN cli_pc' = "menu" /\ UNCHANGED cli_result
     ELSE IF options_.mode \in {"scan", "recover", "carve"}
     THEN cli_pc' = options_.mode /\ UNCHANGED cli_result
     ELSE cli_pc' = "done" /\ cli_result' = <<Returned(1)>>
  /\ UNCHANGED <<argv, options_, carver_calls, carve_handled>>
  /\ UNCHANGED <<engine_vars, matcher_vars, window_vars, wizard_vars>>

\* A handler returns `code`: Run returns it, HandleInteractive (reached only
\* with the interactive flag set and list_devices clear) drops it and shows
\* the menu again.
HandlerReturns(code) ==
  IF options_.interactive /\ ~options_.list_devices
  THEN cli_pc' = "menu" /\ UNCHANGED cli_result
  ELSE cli_pc' = "done" /\ cli_result' = <<Returned(code)>>

\* int CLI::HandleScan(); set_ok and start_ok are what SetDevice and
\* StartScan of the recovery engine return.
HandleScanResult(opts, set_ok, start_ok) ==
  IF opts.device_path = "" THEN 1
  ELSE IF ~set_ok THEN 1
  ELSE IF ~start_ok THEN 1
  ELSE 0

HandleScan(set_ok, start_ok) ==
  /\ cli_pc = "scan"
  /\ HandlerReturns(HandleScanResult(options_, set_ok, start_ok))
  /\ UNCHANGED <<argv, options_, carver_calls, carve_handled>>
  /\ UNCHANGED <<engine_vars, matcher_vars, window_vars, wizard_vars>>

\* int CLI::HandleRecover(): 1 without both paths or when the scan fails, 0
\* whether or not the user confirms.
HandleRecover(set_ok, start_ok) ==
  /\ cli_pc = "recover"
  /\ HandlerReturns(
       IF options_.device_path = "" \/ options_.output_path = "" THEN 1
       ELSE IF HandleScanResult(options_, set_ok, start_ok) # 0 THEN 1
       ELSE 0)
  /\ UNCHANGED <<argv, options_, carver_calls, carve_handled>>
  /\ UNCHANGED <<engine_vars, matcher_vars, window_vars, wizard_vars>>

\* HandleCarve's test as it would be with && in place of ||.
HandleCarveRejects_BothEmpty(opts) ==
  opts.device_path = "" /\ opts.output_path = ""

\* The first test of HandleCarve.
HandleCarveRejects(opts) ==
  opts.device_path = "" \/ opts.output_path = ""

CarveHandled(code) ==
  <<[device_path |-> options_.device_path,
     output_path |-> options_.output_path, code |-> code]>>

\* HandleCarve up to the construction of the local engine `carver`.
HandleCarveEnter ==
  /\ cli_pc = "carve"
  /\ IF HandleCarveRejects(options_)
     THEN /\ carver_calls' = << >>
          /\ carve_handled' = CarveHandled(1)
          /\ HandlerReturns(1)
          /\ UNCHANGED <<signatures_, max_scan_size_, stats_>>
     ELSE /\ carver_calls' = <<"FileCarvingEngine">>
          /\ carve_handled' = << >>
          /\ cli_pc' = "carve_init"
          /\ signatures_' = << >>
          /\ max_scan_size_' = DefaultMaxScanSize
          /\ stats_' = CtorStats
          /\ UNCHANGED cli_result
  /\ UNCHANGED <<argv, options_, output_files, returned_stats, caller_vars>>
  /\ UNCHANGED <<matcher_vars, window_vars, wizard_vars>>

\* HandleCarve: carver.Initialize().
HandleCarveInitialize ==
  /\ cli_pc = "carve_init"
  /\ signatures_' = LoadDefaultSignatures(signatures_)
  /\ carver_calls' = Append(carver_calls, "Initialize")
  /\ cli_pc' = "carve_files"
  /\ UNCHANGED <<argv, options_, cli_result, carve_handled>>
  /\ UNCHANGED <<max_scan_size_, stats_, output_files, returned_stats,
                 caller_vars>>
  /\ UNCHANGED <<matcher_vars, window_vars, wizard_vars>>

\* HandleCarve: carved = carver.CarveFiles(device_path, output_path), on a
\* device holding `source`.
HandleCarveCarveFiles(source) ==
  /\ cli_pc = "carve_files"
  /\ stats_' = CarveBody(ResetStats, source, max_scan_size_)
  /\ output_files' = CarveOutput(output_files, source, signatures_)
  /\ carver_calls' = Append(carver_calls, "CarveFiles")
  /\ cli_pc' = "carve_stats"
  /\ UNCHANGED <<argv, options_, cli_result, carve_handled>>
  /\ UNCHANGED <<signatures_, max_scan_size_, returned_stats, caller_vars>>
  /\ UNCHANGED <<matcher_vars, window_vars, wizard_vars>>

\* HandleCarve: carver.GetStats(), the report, return 0.
HandleCarveReturn ==
  /\ cli_pc = "carve_stats"
  /\ returned_stats' = <<stats_>>
  /\ carver_calls' = Append(carver_calls, "GetStats")
  /\ carve_handled' = CarveHandled(0)
  /\ HandlerReturns(0)
  /\ UNCHANGED <<argv, options_>>
  /\ UNCHANGED <<signatures_, max_scan_size_, stats_, output_files,
                 caller_vars>>
  /\ UNCHANGED <<matcher_vars, window_vars, wizard_vars>>

\* One round of HandleInteractive's loop: the choice and the paths read.
InteractiveMenu(choice, device, output) ==
  /\ cli_pc = "menu"
  /\ options_' =
       IF choice = "2" THEN [options_ EXCEPT !.device_path = device]
       ELSE IF choice \in {"3", "4"}
       THEN [options_ EXCEPT !.device_path = device, !.output_path = output]
       ELSE options_
  /\ cli_pc' = IF choice = "2" THEN "scan"
               ELSE IF choice = "3" THEN "recover"
               ELSE IF choice = "4" THEN "carve"
               ELSE IF choice = "5" THEN "done"
               ELSE "menu"
  /\ cli_result' = IF choice = "5" THEN <<Returned(0)>> ELSE cli_result
  /\ UNCHANGED <<argv, carver_calls, carve_handled>>
  /\ UNCHANGED <<engine_vars, matcher_vars, window_vars, wizard_vars>>

NextCli ==
  \/ RunParse
  \/ RunDispatch
  \/ \E set_ok \in BOOLEAN, start_ok \in BOOLEAN : HandleScan(set_ok, start_ok)
  \/ \E set_ok \in BOOLEAN, start_ok \in BOOLEAN :
       HandleRecover(set_ok, start_ok)
  \/ HandleCarveEnter
  \/ HandleCarveInitialize
  \/ \E source \in Sources : HandleCarveCarveFiles(source)
  \/ HandleCarveReturn
  \/ \E choice \in ChoiceInputs, device \in PathInputs, output \in PathInputs :
       InteractiveMenu(choice, device, output)

SpecCli == InitCli /\ [][NextCli]_vars

\* ------------------------------------------------- claims: vocabulary ----
RegisteredTypes(sigs) == {sigs[i].first : i \in 1..Len(sigs)}

RegisteredSignatures(sigs) == {sigs[i].second : i \in 1..Len(sigs)}

Occurrences(types, name) == Cardinality({i \in 1..Len(types) : types[i] = name})

ZeroCounts(s) ==
  s.bytes_scanned = 0 /\ s.files_found = 0 /\ s.files_carved = 0

\* bytes occur in source at the 0-based offset off.
BytesAt(source, off, bytes) ==
  /\ off >= 0
  /\ off + Len(bytes) <= Len(source)
  /\ \A k \in 1..Len(bytes) : source[off + k] = bytes[k]

\* Caller t's CarveFiles has returned and no other caller ever called it.
RanAlone(t) ==
  /\ pc[t] = "idle"
  /\ carve_ret[t] # << >>
  /\ \A u \in Callers \ {t} : pc[u] = "idle" /\ carve_ret[u] = << >>

\* In source, sig's header at start is followed by its first footer, which
\* ends at end, the whole being no longer than sig's maximum size.
Bracketed(source, sig, start, end) ==
  /\ sig.has_footer
  /\ sig.footer # << >>
  /\ BytesAt(source, start, sig.header)
  /\ start + Len(sig.header) <= end - Len(sig.footer)
  /\ BytesAt(source, end - Len(sig.footer), sig.footer)
  /\ \A e \in (start + Len(sig.header) + Len(sig.footer))..(end - 1) :
       ~BytesAt(source, e - Len(sig.footer), sig.footer)
  /\ SizeLE(Bytes(end - start), sig.max_file_size)

RECURSIVE SumOfLengths(_, _)
SumOfLengths(files, i) ==
  IF i > Len(files) THEN 0
  ELSE (files[i].end_offset - files[i].start_offset)
         + SumOfLengths(files, i + 1)

\* ---------------------------------------------------------------- C1 ----
\* C1: every AddSignature(sig) step makes GetSupportedFileTypes() one longer
\* when sig.file_type was not registered and leaves its length unchanged
\* when it was.
C1_AddSignatureCount ==
  [][\A signature \in SignatureInputs :
       AddSignature(signature) =>
         Len(GetSupportedFileTypes(signatures_')) =
           Len(GetSupportedFileTypes(signatures_))
             + (IF signature.file_type \in RegisteredTypes(signatures_)
                THEN 0 ELSE 1)]_vars

\* Both cases have happened: "Tiny Type" was added to the 24 defaults and
\* "JPEG Image" was re-added on top of them.
C1_Witness ==
  /\ init_calls >= 1
  /\ "Tiny Type" \in RegisteredTypes(signatures_)
  /\ SmallJpeg \in RegisteredSignatures(signatures_)
  /\ Len(GetSupportedFileTypes(signatures_)) = 25

\* ---------------------------------------------------------------- C2 ----
\* C2: once Initialize() has been called, GetSupportedFileTypes() holds
\* every file_type of the default catalog exactly once; on an engine that
\* was given no other type its size is 24, the number of AddSignature calls
\* of LoadDefaultSignatures, also after a repeated Initialize().
C2_DefaultsLoadedOnce ==
  init_calls >= 1 =>
    LET types == GetSupportedFileTypes(signatures_)
        defaults == {DefaultSignatures[i].file_type :
                       i \in 1..Len(DefaultSignatures)}
    IN  /\ \A i \in 1..Len(DefaultSignatures) :
             Occurrences(types, DefaultSignatures[i].file_type) = 1
        /\ \A name \in {"JPEG Image", "PDF Document", "MP4 Video",
                        "AVI Video", "Matroska Video", "RAR Archive",
                        "GZIP Archive", "7-Zip Archive", "FLAC Audio",
                        "WAV Audio", "OGG Audio"} :
             Occurrences(types, name) = 1
        /\ Len(DefaultSignatures) = 24
        /\ RegisteredTypes(signatures_) \subseteq defaults
             => Len(types) = 24

\* Initialize() was repeated on an engine holding the defaults only.
C2_Witness ==
  /\ init_calls >= 2
  /\ Len(GetSupportedFileTypes(signatures_)) = 24

\* ---------------------------------------------------------------- C3 ----
\* C3: when a CarveFiles run has ended on a source in which a registered
\* footer-bearing header is followed within max_size by its footer, exactly
\* one file was carved, it ends right after the footer, and files_carved
\* is 1.
C3_BracketedFileCarved ==
  \A t \in Callers :
    \A sig \in RegisteredSignatures(signatures_) :
      \A start \in 0..Len(carve_source[t]), end \in 0..Len(carve_source[t]) :
        (RanAlone(t) /\ Bracketed(carve_source[t], sig, start, end)) =>
          /\ Len(output_files) = 1
          /\ output_files[1].start_offset = start
          /\ output_files[1].end_offset = end
          /\ stats_.files_carved = 1

\* ---------------------------------------------------------------- C4 ----
\* C4: when a CarveFiles run has ended on a source in which the header of a
\* registered footerless signature is followed by at least max_size bytes,
\* a carved file starts at that header and is exactly max_size long.
C4_FooterlessCappedLength ==
  \A t \in Callers :
    \A sig \in RegisteredSignatures(signatures_) :
      \A start \in 0..Len(carve_source[t]) :
        ( /\ RanAlone(t)
          /\ ~sig.has_footer
          /\ sig.footer = << >>
          /\ BytesAt(carve_source[t], start, sig.header)
          /\ sig.max_file_size.hi = 0
          /\ start + Len(sig.header) + sig.max_file_size.lo
               <= Len(carve_source[t]) ) =>
          \E i \in 1..Len(output_files) :
            /\ output_files[i].file_type = sig.file_type
            /\ output_files[i].start_offset = start
            /\ output_files[i].end_offset = start + sig.max_file_size.lo

\* ---------------------------------------------------------------- C5 ----
\* C5: while and after a caller's CarveFiles runs on a source larger than
\* the cap set by SetMaxScanSize, bytes_scanned is at most that cap.
C5_ScanCapRespected ==
  \A t \in Callers :
    ( /\ pc[t] # "idle" \/ carve_ret[t] # << >>
      /\ SizeLT(max_scan_size_, Bytes(Len(carve_source[t]))) ) =>
      SizeLE(Bytes(stats_.bytes_scanned), max_scan_size_)

\* A run has ended on the 9-byte source under a cap of 4 bytes.
C5_Witness ==
  \E t \in Callers :
    /\ pc[t] = "idle"
    /\ carve_ret[t] # << >>
    /\ carve_source[t] = JpegSource
    /\ max_scan_size_ = Bytes(4)

\* ---------------------------------------------------------------- C6 ----
\* C6: as long as CarveFiles has never been called, stats_ and every
\* GetStats() result have bytes_scanned, files_found and files_carved 0.
C6_StatsInitiallyZero ==
  ~carve_called =>
    /\ ZeroCounts(stats_)
    /\ returned_stats # << >> => ZeroCounts(returned_stats[1])

\* GetStats() answered after Initialize, AddSignature and SetMaxScanSize on
\* an engine that never carved.
C6_Witness ==
  /\ ~carve_called
  /\ returned_stats # << >>
  /\ init_calls >= 1
  /\ "Tiny Type" \in RegisteredTypes(signatures_)
  /\ max_scan_size_ # DefaultMaxScanSize

\* ---------------------------------------------------------------- C7 ----
\* C7: the first step of every CarveFiles invocation after its entry is the
\* reset, which leaves every CarvingStats field zero, and the stats of an
\* engine whose runs have all ended are those of a run alone (nothing was
\* counted), however many runs came before.
C7_ResetAtStart ==
  /\ [][\A t \in Callers :
          /\ (pc[t] = "idle" /\ pc'[t] # "idle") => pc'[t] = "reset"
          /\ (pc[t] = "reset" /\ pc'[t] # "reset") =>
               /\ pc'[t] = "carve"
               /\ ZeroCounts(stats_')
               /\ stats_'.scan_time_seconds = 0]_vars
  /\ []((carve_called /\ \A t \in Callers : pc[t] = "idle") =>
          /\ ZeroCounts(stats_)
          /\ stats_.files_carved = Len(output_files))

\* A run is past its reset on an engine on which an earlier run has ended.
C7_Witness ==
  \E t \in Callers, u \in Callers :
    /\ t # u
    /\ pc[t] = "idle"
    /\ carve_ret[t] # << >>
    /\ pc[u] = "carve"

\* ---------------------------------------------------------------- C8 ----
\* C8: two successive GetStats() samples taken during one CarveFiles run
\* never show bytes_scanned decreasing, and once a run has ended
\* bytes_scanned is at least the sum of the lengths of the carved files.
C8_BytesScannedMonotone ==
  /\ [][\A t \in Callers :
          (last_sample[t] # << >> /\ last_sample'[t] # << >>) =>
            last_sample'[t][1] >= last_sample[t][1]]_vars
  /\ [](\A t \in Callers :
          (pc[t] = "idle" /\ carve_ret[t] # << >>) =>
            stats_.bytes_scanned >= SumOfLengths(output_files, 1))

\* GetStats() has sampled a run that is past its reset.
C8_Witness ==
  \E t \in Callers :
    /\ pc[t] \in {"carve", "return"}
    /\ last_sample[t] # << >>
    /\ returned_stats # << >>

\* ---------------------------------------------------------------- C9 ----
\* C9: files_carved never exceeds files_found, files_carved is the number
\* of files written, and a returned CarveFiles call returned files_carved.
C9_CarvedAtMostFound ==
  /\ stats_.files_carved <= stats_.files_found
  /\ (\A t \in Callers : pc[t] = "idle") =>
       stats_.files_carved = Len(output_files)
  /\ \A t \in Callers :
       (pc[t] = "idle" /\ carve_ret[t] # << >>
          /\ \A u \in Callers : pc[u] = "idle") =>
         carve_ret[t][1] = stats_.files_carved

\* A run has executed its body and returned.
C9_Witness ==
  \E t \in Callers :
    /\ pc[t] = "idle"
    /\ carve_ret[t] = <<0>>
    /\ \A u \in Callers : pc[u] = "idle"

\* --------------------------------------------------------------- C10 ----
\* C10: a CarveFiles call that started while another call was active
\* never reaches the reset of stats_ and never returns a count.
C10_SecondCallRejected ==
  \A t \in Callers :
    entered_busy[t] =>
      /\ pc[t] \in {"idle", "reset"}
      /\ carve_ret[t] = << >>

\* --------------------------------------------------------------- C11 ----
\* C11: a run during which a stop was requested ends in the Stopped state
\* with bytes_scanned below the size of its source.
C11_StopEndsStopped ==
  \A t \in Callers :
    (pc[t] = "idle" /\ carve_ret[t] # << >> /\ stop_requested[t]) =>
      /\ RunState(t) = "Stopped"
      /\ stats_.bytes_scanned < Len(carve_source[t])

\* --------------------------------------------------------------- C12 ----
\* C12: the registry enumerates its signatures in registration order: on an
\* engine holding the defaults only, GetSupportedFileTypes() lists the
\* file_types in the order of LoadDefaultSignatures' AddSignature calls, so
\* that of two signatures with the same header the one registered earlier
\* comes first.
C12_RegistrationOrder ==
  (init_calls >= 1
     /\ RegisteredTypes(signatures_) \subseteq
          {DefaultSignatures[i].file_type : i \in 1..Len(DefaultSignatures)})
    => GetSupportedFileTypes(signatures_) =
         [i \in 1..Len(DefaultSignatures) |-> DefaultSignatures[i].file_type]

\* --------------------------------------------------------------- C13 ----
\* The signatures stored under a file_type name.
StoredUnder(sigs, name) ==
  {sigs[i].second : i \in {j \in 1..Len(sigs) : sigs[j].first = name}}

\* C13: an AddSignature(s2) step with an already registered file_type leaves
\* exactly s2 stored under that file_type, changes the entry of no other
\* file_type and changes the set of registered names not at all.
C13_ReAddReplaces ==
  [][\A signature \in SignatureInputs :
       (AddSignature(signature)
          /\ signature.file_type \in RegisteredTypes(signatures_)) =>
         /\ StoredUnder(signatures_', signature.file_type) = {signature}
         /\ RegisteredTypes(signatures_') = RegisteredTypes(signatures_)
         /\ \A name \in RegisteredTypes(signatures_) \ {signature.file_type} :
              StoredUnder(signatures_', name) = StoredUnder(signatures_, name)]_vars

\* The catalog's JPEG entry was replaced by SmallJpeg, the PNG entry is the
\* catalog's.
C13_Witness ==
  /\ init_calls >= 1
  /\ StoredUnder(signatures_, "JPEG Image") = {SmallJpeg}
  /\ StoredUnder(signatures_, "PNG Image") = {PNG}

\* --------------------------------------------------------------- C14 ----
\* C14: no step of any public operation removes a name from the set of
\* registered file_types.
C14_TypesNeverLost ==
  [][RegisteredTypes(signatures_) \subseteq RegisteredTypes(signatures_')]_vars

\* A type added by hand is registered on an engine that has been
\* initialised, reconfigured and has carved.
C14_Witness ==
  /\ "Tiny Type" \in RegisteredTypes(signatures_)
  /\ init_calls >= 1
  /\ max_scan_size_ # DefaultMaxScanSize
  /\ \E t \in Callers : pc[t] = "idle" /\ carve_ret[t] # << >>

\* --------------------------------------------------------------- C15 ----
\* C15: every signature in the registry has a header of at least one byte,
\* a maximum size greater than the header length, and footer bytes when
\* has_footer is set.
C15_RegistryWellFormed ==
  \A sig \in RegisteredSignatures(signatures_) :
    /\ Len(sig.header) >= 1
    /\ SizeLT(Bytes(Len(sig.header)), sig.max_file_size)
    /\ sig.has_footer => sig.footer # << >>

\* --------------------------------------------------------------- C16 ----
\* The end of the first occurrence of footer that lies wholly inside
\* [start, limit) of data, 0 when there is none.
FirstFooterEnd(data, start, limit, footer) ==
  LET ends == {e \in (start + Len(footer))..limit :
                 BytesAt(data, e - Len(footer), footer)}
  IN  IF ends = {} THEN 0
      ELSE CHOOSE e \in ends : \A f \in ends : e <= f

\* C16: for a non-empty footer and start <= limit, FindFooter returns the
\* offset right after the first occurrence of the footer wholly inside
\* [start, limit), one that ends exactly at the limit included, and 0 only
\* when there is none.
C16_FindFooterFirstOccurrence ==
  (find_result # << >> /\ m_footer # << >> /\ m_start <= m_max_size) =>
    /\ ~find_result[1].crashed
    /\ find_result[1].result =
         FirstFooterEnd(m_data, m_start, m_max_size, m_footer)

\* --------------------------------------------------------------- C17 ----
\* C17: when the window [start, limit) is shorter than the footer,
\* FindFooter returns 0.
C17_ShortWindowNotFound ==
  (find_result # << >> /\ m_max_size - m_start < Len(m_footer)) =>
    /\ ~find_result[1].crashed
    /\ find_result[1].result = 0

\* --------------------------------------------------------------- C18 ----
\* C18: FindFooter reads no byte at an index >= limit, and a found offset r
\* satisfies start + footer length <= r <= limit.
C18_FindFooterWithinLimit ==
  find_result # << >> =>
    /\ ~find_result[1].crashed
    /\ \A j \in find_result[1].reads : j < m_max_size
    /\ find_result[1].result # 0 =>
         /\ m_start + Len(m_footer) <= find_result[1].result
         /\ find_result[1].result <= m_max_size

\* --------------------------------------------------------------- C19 ----
\* C19: FindFooter with an empty footer returns 0 and has read no byte.
C19_EmptyFooterNotFound ==
  (find_result # << >> /\ m_footer = << >>) =>
    /\ find_result[1].result = 0
    /\ find_result[1].reads = {}
    /\ ~find_result[1].crashed

\* FindFooter has answered for an empty footer on a window that holds bytes
\* after a start beyond 0.
C19_Witness ==
  /\ find_result # << >>
  /\ m_footer = << >>
  /\ 0 < m_start
  /\ m_start < m_max_size

C21_FrameEffects ==
  [][ /\ (pc' = pc => stats_' = stats_)
      /\ ( (\/ pc' # pc
            \/ max_scan_size_' # max_scan_size_
            \/ returned_stats' # returned_stats)
           => signatures_' = signatures_) ]_vars

\* Witness for C21: with signatures registered, the cap has been set, the
\* statistics read and a CarveFiles call has returned.
C21_Witness ==
  /\ signatures_ # << >>
  /\ max_scan_size_ # DefaultMaxScanSize
  /\ returned_stats # << >>
  /\ \E t \in Callers : carve_ret[t] # << >>

\* C22: in MainWindow, Start Scan and Stop Scan are never enabled together,
\* Stop Scan is enabled exactly when is_scanning_ is true, and Start Scan is
\* enabled only when a device is selected (current_device_ is not empty).
C22_ScanButtonsConsistent ==
  /\ ~(btn_enabled.start_scan /\ btn_enabled.stop_scan)
  /\ btn_enabled.stop_scan = is_scanning_
  /\ btn_enabled.start_scan => current_device_ # ""

\* Witness for C22: a device was selected, a scan was started and has
\* completed; Start Scan is enabled again and Stop Scan is not.
C22_Witness ==
  /\ lbl_status_ = "Scan completed"
  /\ ~user_stopped
  /\ btn_enabled.start_scan
  /\ ~btn_enabled.stop_scan
  /\ current_device_ # ""

\* C23: once onStopScan has run for a scan, the window does not show that
\* scan as completed (status "Scan completed") unless a new scan was
\* started: user_stopped is set by onStopScan and cleared by a started scan.
C23_NoCompletionAfterStop ==
  ~(user_stopped /\ lbl_status_ = "Scan completed")

\* C24: at most one progress timer runs at any time, and onScanCompleted
\* runs at most once for a started scan.
C24_SingleProgressTimer ==
  /\ progress_timers <= 1
  /\ completions <= 1

\* C25: in DeviceWizard, selected_index_ is -1 or a valid index into
\* devices_; OK is enabled exactly when selected_index_ >= 0; a refresh
\* leaves no selection and OK disabled; the dialog is accepted only with a
\* device selected; GetSelectedDevice gives the selected device's path, or
\* the empty string when nothing is selected, and that path is what the
\* window takes over on Accepted.
C25_WizardSelection ==
  /\ [](/\ selected_index_ = -1
           \/ (selected_index_ >= 0 /\ selected_index_ < Len(devices_))
        /\ btn_ok_ = (selected_index_ >= 0)
        /\ (dialog_result = <<"Accepted">> => selected_index_ >= 0)
        /\ GetSelectedDevice(devices_, selected_index_)
             = IF selected_index_ >= 0
               THEN devices_[selected_index_ + 1].path
               ELSE ""
        /\ (dialog_result = <<"Accepted">> /\ wizard_state = "closed"
              => current_device_ = devices_[selected_index_ + 1].path))
  /\ [][onRefreshDevices => (selected_index_' = -1 /\ ~btn_ok_')]_vars

\* Witness for C25: the wizard was accepted with the second device, opened
\* again (the selection was still there) and refreshed: nothing is selected
\* and OK is disabled.
C25_Witness ==
  /\ wizard_state = "open"
  /\ current_device_ = "/dev/sdb1"
  /\ selected_index_ = -1
  /\ ~btn_ok_
  /\ GetSelectedDevice(devices_, selected_index_) = ""

\* The calls HandleCarve made on its engine that do engine work.
IsEngineWork(call) == call \in {"Initialize", "CarveFiles"}

\* HandleCarve returned 1 without creating or calling the engine when a path
\* was empty, and otherwise called Initialize, then CarveFiles, once each,
\* and returned 0.
HandleCarveAsClaimed ==
  \A i \in 1..Len(carve_handled) :
    LET h == carve_handled[i]
    IN  IF h.device_path = "" \/ h.output_path = ""
        THEN h.code = 1 /\ carver_calls = << >>
        ELSE /\ h.code = 0
             /\ SelectSeq(carver_calls, IsEngineWork)
                  = <<"Initialize", "CarveFiles">>

\* Run, called without arguments, returned 1.
RunWithoutArguments ==
  (cli_pc # "start" /\ argv = << >>) => cli_result = <<Returned(1)>>

\* No special command is set and the mode is none of scan, recover, carve.
NoCommand ==
  /\ ~options_.list_devices
  /\ ~options_.interactive
  /\ options_.mode \notin {"scan", "recover", "carve"}

\* C26 as stated: HandleCarve behaves as claimed, and Run returns 1 when no
\* argument is given or when no special command is set and the mode is none
\* of scan, recover, carve -- whatever else is on the command line.
C26_CliReturnCodes_AsStated ==
  /\ HandleCarveAsClaimed
  /\ RunWithoutArguments
  /\ (cli_pc \in {"done", "exited"} /\ NoCommand)
       => cli_result = <<Returned(1)>>

\* C26, amended: HandleCarve behaves as claimed; Run returns 1 when no
\* argument is given, and when ParseArguments returns with no special
\* command set and a mode that is none of scan, recover, carve.  Run does
\* not return when ParseArguments meets -h, --help, -v or --version as an
\* option: the process then exits with status 0.
C26_CliReturnCodes ==
  /\ HandleCarveAsClaimed
  /\ RunWithoutArguments
  /\ (cli_pc = "done" /\ NoCommand) => cli_result = <<Returned(1)>>
  /\ cli_pc = "exited"
       => /\ cli_result = <<Exited(0)>>
          /\ \E i \in 1..Len(argv) :
               argv[i] \in {"-h", "--help", "-v", "--version"}

\* Witness for C26: Run was called in carve mode with both paths, HandleCarve
\* went through Initialize and CarveFiles, and Run returned 0.
C26_Witness ==
  /\ cli_pc = "done"
  /\ ~options_.interactive
  /\ carve_handled # << >>
  /\ carve_handled[1].code = 0
  /\ SelectSeq(carver_calls, IsEngineWork) = <<"Initialize", "CarveFiles">>
  /\ cli_result = <<Returned(0)>>

=========================================================================
